---- MODULE Spec2Model ----
(***************************************************************************)
(* Reader session of the story-teller client (StoryReader.tsx with the     *)
(* ContinueModal and the repository functions of api.ts), together with    *)
(* the remote story record the session talks to.                           *)
(*                                                                         *)
(* One state of the model is one state of the mounted StoryReader between  *)
(* two browser tasks: the React state of the component, the state of the   *)
(* ContinueModal instance while it is mounted, the async handlers that     *)
(* are suspended at an await (tasks), and the story record on the server.  *)
(* A control is usable when it is rendered and not disabled: the           *)
(* generation overlays are sibling elements that neither remove nor        *)
(* disable the controls of the view.  A continuation that follows an await *)
(* of an already settled promise runs in the same browser task as the      *)
(* code before it, so the two form one step.                               *)
(***************************************************************************)
EXTENDS Integers, Sequences, FiniteSets, TLC

(* ----------------------------- bounds ---------------------------------- *)
\* max_days of the story that is open
MaxDays == 2
\* length of the record lists the projector is applied to
MaxRecords == 3
\* entries of an ending_vector, and the largest score in one
MaxTypes == 3
MaxScore == 2
\* async handlers suspended at the same time
MaxTasks == 2
\* how many of the EMOTIONS the user picks from
MaxEmotions == 1

(* --------------------------- value encoding ---------------------------- *)
\* null / undefined of the source
Null == [null |-> TRUE]
\* useState<number | null>(null) of selectedChapter: the null value
NullSel == -2
\* the ending sentinel of selectedChapter
EndingSel == -1

\* story ids: the story whose record the server variables hold, and the
\* story a createStoryFromDemo call creates; useState<string | null>(null)
StoryA == "A"
StoryB == "B"
NoStory == ""
\* createStoryFromDemo(demoId, 7)
DemoDays == 7

Pending == [st |-> "pending"]
Ok(v) == [st |-> "ok", val |-> v]
Fail(m) == [st |-> "fail", msg |-> m]

\* EMOTIONS of ContinueModal.tsx (the names, in order)
EMOTIONS == <<"kind", "prideful", "wrathful", "envious", "fearful",
              "conflicted", "determined", "restless", "humble", "greedy",
              "lustful">>

\* the emotions the user picks from
UserEmotions == {EMOTIONS[i] : i \in 1..MaxEmotions}

\* message of the Error a repository function throws when the response
\* carries no detail: error.detail || "Failed to ..."
GenericMsg == [getStory |-> "Failed to get story",
               listChapters |-> "Failed to list chapters",
               runDay |-> "Failed to run day",
               generateEnding |-> "Failed to generate ending",
               listStories |-> "Failed to list stories",
               deleteStory |-> "Failed to delete story"]
FailMsgs(op) == {GenericMsg[op]}

(* ------------------------------ state ---------------------------------- *)
VARIABLES
  \* StoryReader useState
  story, chapters, loading, generating, error, showModal, ending,
  generatingEnding, selectedChapter,
  \* ContinueModal useState (of the mounted instance)
  selectedEmotion, submitting,
  \* has the mount effect run
  mounted,
  \* suspended async handlers
  tasks,
  \* the story record on the server
  srvDay, srvFinished, srvPrologue, srvEnding, srvOrder,
  \* App useState, and whether a createStoryFromDemo call of
  \* Landing.handleStartDemo is awaited
  view, selectedStoryId, creatingFromDemo,
  \* Landing useState (the ids of stories), whether its mount effect has
  \* run, its suspended handlers, and the stories the server lists
  stories, landingLoading, landingError, deletingId, landingMounted,
  landingTasks, srvStories

reader == <<story, chapters, loading, generating, error, showModal, ending,
            generatingEnding, selectedChapter>>
modal == <<selectedEmotion, submitting>>
server == <<srvDay, srvFinished, srvPrologue, srvEnding, srvOrder>>
landing == <<stories, landingLoading, landingError, deletingId,
             landingMounted, landingTasks, srvStories>>
app == <<view, selectedStoryId, creatingFromDemo, landing>>
vars == <<reader, modal, mounted, tasks, server, app>>

(* --------------------------- server record ----------------------------- *)
\* EndingResponse returned by POST /ending
GeneratedEnding ==
  [ending_type |-> "tragedy", title |-> "Finale", text |-> "E",
   word_count |-> 1, resolved_threads |-> <<"t1">>,
   unresolved_threads |-> <<>>]

\* Chapter records (the fields the reader reads)
RegularChapter(d) ==
  [day |-> d, chapter_type |-> IF d = 0 THEN "prologue" ELSE "day",
   chapter_title |-> "", chapter_text |-> "T", chapter_word_count |-> 1,
   ending |-> Null]

EndingRecord(t, p) ==
  [day |-> 0, chapter_type |-> "ending", chapter_title |-> t,
   chapter_text |-> "E", chapter_word_count |-> 1, ending |-> p]

\* persisted ending records: without title and payload, with a title and
\* a payload lacking the fields, complete
EndingRecords ==
  {EndingRecord("", Null),
   EndingRecord("Finale", [score |-> 1]),
   EndingRecord("Finale",
     [ending_type |-> "tragedy", resolved_threads |-> <<"t1">>,
      unresolved_threads |-> <<>>])}

\* days lo..hi ascending / descending
RECURSIVE Asc(_, _)
Asc(lo, hi) == IF lo > hi THEN <<>> ELSE <<RegularChapter(lo)>> \o Asc(lo + 1, hi)
RECURSIVE Desc(_, _)
Desc(lo, hi) == IF lo > hi THEN <<>> ELSE <<RegularChapter(hi)>> \o Desc(lo, hi - 1)

\* GET /api/stories/{id}: StoryStatus
SrvSnapshot ==
  [story_id |-> StoryA, day_index |-> srvDay, max_days |-> MaxDays,
   finished |-> srvFinished]

\* GET /api/stories/{id}/chapters: the record list
SrvChapterList ==
  LET lo == IF srvPrologue THEN 0 ELSE 1
      e == IF srvEnding = Null THEN <<>> ELSE <<srvEnding>>
  IN IF srvOrder = "asc" THEN Asc(lo, srvDay - 1) \o e
     ELSE e \o Desc(lo, srvDay - 1)

\* the record of the story created from a demo: no day written yet.  It is
\* kept as created: the calls that would change it are answered with a
\* failure
DemoSnapshot ==
  [story_id |-> StoryB, day_index |-> 1, max_days |-> DemoDays,
   finished |-> FALSE]
DemoChapterList == <<>>

\* the responses for the story id of a request
SnapshotOf(sid) == IF sid = StoryA THEN SrvSnapshot ELSE DemoSnapshot
ChapterListOf(sid) == IF sid = StoryA THEN SrvChapterList ELSE DemoChapterList

(* ------------------- projector (loadStory, 86-115) --------------------- *)
\* chaptersData.chapters.filter((c) => c.chapter_type !== "ending")
RegularChapters(list) == SelectSeq(list, LAMBDA c : c.chapter_type # "ending")

\* variant: the last ending record instead of the first
EndingChapterLast(list) ==
  LET es == SelectSeq(list, LAMBDA c : c.chapter_type = "ending")
  IN IF es = <<>> THEN Null ELSE es[Len(es)]
\* chaptersData.chapters.find((c) => c.chapter_type === "ending")
EndingChapter(list) ==
  LET es == SelectSeq(list, LAMBDA c : c.chapter_type = "ending")
  IN IF es = <<>> THEN Null ELSE es[1]

\* endingData?.f: the field f of the payload, if the payload has one
Has(endingData, f) == f \in DOMAIN endingData

\* variant: ending_type without its `|| "unknown"`
ProjectEndingNoDefault(c) ==
  LET endingData == c.ending
  IN [ending_type |->
        IF Has(endingData, "ending_type") THEN endingData.ending_type
        ELSE "",
      title |-> IF c.chapter_title = "" THEN "The End" ELSE c.chapter_title,
      text |-> c.chapter_text,
      word_count |-> c.chapter_word_count,
      resolved_threads |->
        IF Has(endingData, "resolved_threads")
        THEN endingData.resolved_threads ELSE <<>>,
      unresolved_threads |->
        IF Has(endingData, "unresolved_threads")
        THEN endingData.unresolved_threads ELSE <<>>]
\* the EndingResponse built from a persisted ending record (101-109)
ProjectEnding(c) ==
  LET endingData == c.ending
  IN [ending_type |->
        IF Has(endingData, "ending_type") /\ endingData.ending_type # ""
        THEN endingData.ending_type ELSE "unknown",
      title |-> IF c.chapter_title = "" THEN "The End" ELSE c.chapter_title,
      text |-> c.chapter_text,
      word_count |-> c.chapter_word_count,
      resolved_threads |->
        IF Has(endingData, "resolved_threads")
        THEN endingData.resolved_threads ELSE <<>>,
      unresolved_threads |->
        IF Has(endingData, "unresolved_threads")
        THEN endingData.unresolved_threads ELSE <<>>]

\* variant: setEnding(null) when the list holds no ending record
LoadedEndingReset(old, list) ==
  IF EndingChapter(list) = Null THEN Null
  ELSE ProjectEnding(EndingChapter(list))

\* setEnding of loadStory: only when the list holds an ending record
LoadedEnding(old, list) ==
  IF EndingChapter(list) = Null THEN old
  ELSE ProjectEnding(EndingChapter(list))

\* setSelectedChapter of loadStory: only when a regular chapter exists
LoadedSelection(old, list) ==
  IF Len(RegularChapters(list)) > 0 THEN RegularChapters(list)[1].day
  ELSE old

(* ------------------------- derived view values ------------------------- *)
\* currentChapter: selectedChapter ? chapters.find(day) : chapters[0]
CurrentChapter ==
  IF selectedChapter # NullSel /\ selectedChapter # 0
  THEN LET m == SelectSeq(chapters, LAMBDA c : c.day = selectedChapter)
       IN IF m = <<>> THEN Null ELSE m[1]
  ELSE IF chapters = <<>> THEN Null ELSE chapters[1]

\* App renders the StoryReader: view === "reader" && selectedStoryId
ReaderRendered == view = "reader" /\ selectedStoryId # NoStory

\* the early returns of StoryReader, and the main view when none is taken
LoadingView == ReaderRendered /\ story = Null /\ loading
ErrorView == ReaderRendered /\ story = Null /\ ~loading /\ error # ""
BlankView == ReaderRendered /\ story = Null /\ ~loading /\ error = ""
MainView == ReaderRendered /\ story # Null

\* the header's Continue button is rendered and enabled
ContinueButton ==
  /\ MainView
  /\ ~story.finished /\ story.day_index <= story.max_days
  /\ ~(loading \/ generating)

\* variant: the Generate Ending button rendered without the `!ending` test
EndingButtonEndingHeld ==
  /\ MainView
  /\ (story.finished \/ story.day_index > story.max_days)
  /\ ~generatingEnding

\* variant: the header rendered before a snapshot is held, without the
\* early returns
EndingButtonNoSnapshot ==
  /\ ReaderRendered
  /\ (story = Null \/ story.finished \/ story.day_index > story.max_days)
  /\ ending = Null
  /\ ~generatingEnding

\* the header's Generate Ending button is rendered and enabled
EndingButton ==
  /\ MainView
  /\ (story.finished \/ story.day_index > story.max_days)
  /\ ending = Null
  /\ ~generatingEnding

\* the "No chapters yet" view with its Start Writing button is rendered
StartWritingButton ==
  /\ MainView
  /\ ~(selectedChapter = EndingSel /\ ending # Null)
  /\ CurrentChapter = Null

\* the ContinueModal is rendered
ModalShown == MainView /\ showModal

\* the modal's submit button is enabled
SubmitButton == ModalShown /\ selectedEmotion # "" /\ ~submitting

(* ------------------------------ tasks ---------------------------------- *)
\* the body handleContinue gives to api.runDay: { emotion, recap: "on" },
\* the optional seed left out (135)
RunDayRequest(emotion) == [emotion |-> emotion, recap |-> "on"]

\* a handler suspended at an await; req is the body of its request, Null
\* for a request without one
Task(k, e) ==
  [kind |-> k, pc |-> IF k = "load" THEN "reload" ELSE "call",
   sid |-> selectedStoryId,
   req |-> e, call |-> Pending, sr |-> Pending, cr |-> Pending]

Remove(s, i) == SubSeq(s, 1, i - 1) \o SubSeq(s, i + 1, Len(s))

Idx == 1..Len(tasks)

(* ------------------------------ Init ----------------------------------- *)
\* the state a Landing instance is constructed with (46-53); the server
\* lists the story that is open
LandingConstructed ==
  /\ stories = {} /\ landingLoading = TRUE /\ landingError = ""
  /\ deletingId = NoStory
  /\ landingMounted = FALSE
  /\ landingTasks = <<>>
  /\ srvStories = {StoryA}

Init ==
  /\ story = Null /\ chapters = <<>> /\ loading = TRUE
  /\ generating = FALSE /\ error = "" /\ showModal = FALSE
  /\ ending = Null /\ generatingEnding = FALSE
  /\ selectedChapter = NullSel
  /\ selectedEmotion = "" /\ submitting = FALSE
  /\ mounted = FALSE
  /\ tasks = <<>>
  /\ view = "reader" /\ selectedStoryId = StoryA
  /\ creatingFromDemo = FALSE
  /\ LandingConstructed
  /\ srvDay \in 1..(MaxDays + 1)
  /\ srvFinished \in BOOLEAN
  /\ srvFinished => srvDay > 1
  /\ srvPrologue \in BOOLEAN
  /\ srvOrder \in {"asc", "desc"}
  /\ srvEnding \in {Null} \cup EndingRecords
  /\ srvEnding # Null => (srvFinished \/ srvDay > MaxDays)

(* --------------------- StoryReader: user actions ----------------------- *)
\* useEffect(() => { loadStory(); }, [loadStory]) on mount; the synchronous
\* part of loadStory up to the await
MountEffect ==
  /\ ReaderRendered /\ ~mounted
  /\ mounted' = TRUE
  /\ loading' = TRUE /\ error' = ""
  /\ tasks' = Append(tasks, Task("load", Null))
  /\ UNCHANGED <<story, chapters, generating, showModal, ending,
                 generatingEnding, selectedChapter, modal, app, server>>

\* onClick={() => setShowModal(true)}: mounts a ContinueModal if none is
OpenModal ==
  /\ showModal' = TRUE
  /\ IF showModal THEN UNCHANGED modal
     ELSE selectedEmotion' = "" /\ submitting' = FALSE
  /\ UNCHANGED <<story, chapters, loading, generating, error, ending,
                 generatingEnding, selectedChapter, mounted, app, tasks, server>>

ClickContinue == ContinueButton /\ OpenModal

ClickStartWriting == StartWritingButton /\ OpenModal

\* onClose={() => setShowModal(false)}: the modal instance is unmounted
CloseModal ==
  /\ ModalShown
  /\ showModal' = FALSE
  /\ selectedEmotion' = "" /\ submitting' = FALSE
  /\ UNCHANGED <<story, chapters, loading, generating, error, ending,
                 generatingEnding, selectedChapter, mounted, app, tasks, server>>

\* onClick={() => setSelectedEmotion(emotion.name)}
SelectEmotion ==
  /\ ModalShown
  /\ \E e \in UserEmotions : selectedEmotion' = e
  /\ UNCHANGED <<reader, submitting, mounted, app, tasks, server>>

\* variant: handleContinue without setShowModal(false)
HandleContinueStartModalKept(emotion) ==
  /\ showModal' = showModal
  /\ generating' = TRUE
  /\ error' = ""
  /\ tasks' = Append(tasks, Task("continue", RunDayRequest(emotion)))
  /\ UNCHANGED <<story, chapters, loading, ending, generatingEnding,
                 selectedChapter>>
\* handleContinue up to its first await
HandleContinueStart(emotion) ==
  /\ showModal' = FALSE
  /\ generating' = TRUE
  /\ error' = ""
  /\ tasks' = Append(tasks, Task("continue", RunDayRequest(emotion)))
  /\ UNCHANGED <<story, chapters, loading, ending, generatingEnding,
                 selectedChapter>>

\* ContinueModal.handleSubmit: setSubmitting(true); onContinue(emotion).
\* handleContinue closes the modal in the same update, so the instance
\* whose submitting was set is unmounted.
HandleSubmit ==
  /\ SubmitButton
  /\ Len(tasks) < MaxTasks
  /\ HandleContinueStart(selectedEmotion)
  /\ selectedEmotion' = "" /\ submitting' = FALSE
  /\ UNCHANGED <<mounted, app, server>>

\* handleGenerateEnding up to its first await
HandleGenerateEndingStart ==
  /\ EndingButton
  /\ Len(tasks) < MaxTasks
  /\ generatingEnding' = TRUE
  /\ tasks' = Append(tasks, Task("ending", Null))
  /\ UNCHANGED <<story, chapters, loading, generating, error, showModal,
                 ending, selectedChapter, modal, mounted, app, server>>

\* chapter item onClick: setSelectedChapter(chapter.day)
SelectChapter ==
  /\ MainView
  /\ \E i \in 1..Len(chapters) : selectedChapter' = chapters[i].day
  /\ UNCHANGED <<story, chapters, loading, generating, error, showModal,
                 ending, generatingEnding, modal, mounted, app, tasks, server>>

\* ending item onClick: setSelectedChapter(-1)
SelectEnding ==
  /\ MainView /\ ending # Null
  /\ selectedChapter' = EndingSel
  /\ UNCHANGED <<story, chapters, loading, generating, error, showModal,
                 ending, generatingEnding, modal, mounted, app, tasks, server>>

\* variant: dismissing the banner also closes the modal
DismissErrorAndModal ==
  /\ MainView /\ error # ""
  /\ error' = ""
  /\ showModal' = FALSE
  /\ selectedEmotion' = "" /\ submitting' = FALSE
  /\ UNCHANGED <<story, chapters, loading, generating, ending,
                 generatingEnding, selectedChapter, mounted, app, tasks, server>>

\* error banner: onClick={() => setError("")}
DismissError ==
  /\ MainView /\ error # ""
  /\ error' = ""
  /\ UNCHANGED <<story, chapters, loading, generating, showModal, ending,
                 generatingEnding, selectedChapter, modal, mounted, app, tasks,
                 server>>

(* ------------------------- server: the remote API ---------------------- *)
\* POST /api/stories/{id}/day answered: a day is written and the story
\* advances (finished may be set), or the call fails and nothing changes
ServerRunDay(i) ==
  /\ tasks[i].kind = "continue" /\ tasks[i].pc = "call"
  /\ tasks[i].call = Pending
  /\ \/ /\ tasks[i].sid = StoryA
        /\ ~srvFinished /\ srvDay <= MaxDays
        /\ srvDay' = srvDay + 1
        /\ srvFinished' \in BOOLEAN
        /\ tasks' = [tasks EXCEPT ![i].call =
                       Ok([day_generated |-> srvDay,
                           story_complete |-> srvFinished'])]
        /\ UNCHANGED <<srvPrologue, srvEnding, srvOrder>>
     \/ /\ \E m \in FailMsgs("runDay") :
             tasks' = [tasks EXCEPT ![i].call = Fail(m)]
        /\ UNCHANGED server
  /\ UNCHANGED <<reader, modal, mounted, app>>

\* POST /api/stories/{id}/ending answered: the ending is persisted as a
\* record of type "ending" and returned, or the call fails
ServerGenerateEnding(i) ==
  /\ tasks[i].kind = "ending" /\ tasks[i].pc = "call"
  /\ tasks[i].call = Pending
  /\ \/ /\ tasks[i].sid = StoryA
        /\ srvFinished \/ srvDay > MaxDays
        /\ IF srvEnding = Null THEN srvEnding' \in EndingRecords
           ELSE srvEnding' = srvEnding
        /\ tasks' = [tasks EXCEPT ![i].call = Ok(GeneratedEnding)]
        /\ UNCHANGED <<srvDay, srvFinished, srvPrologue, srvOrder>>
     \/ /\ \E m \in FailMsgs("generateEnding") :
             tasks' = [tasks EXCEPT ![i].call = Fail(m)]
        /\ UNCHANGED server
  /\ UNCHANGED <<reader, modal, mounted, app>>

\* GET /api/stories/{id} answered
ServerGetStory(i) ==
  /\ tasks[i].pc = "reload" /\ tasks[i].sr = Pending
  /\ \/ tasks' = [tasks EXCEPT ![i].sr = Ok(SnapshotOf(tasks[i].sid))]
     \/ \E m \in FailMsgs("getStory") :
          tasks' = [tasks EXCEPT ![i].sr = Fail(m)]
  /\ UNCHANGED <<reader, modal, mounted, app, server>>

\* GET /api/stories/{id}/chapters answered
ServerListChapters(i) ==
  /\ tasks[i].pc = "reload" /\ tasks[i].cr = Pending
  /\ \/ tasks' = [tasks EXCEPT ![i].cr = Ok(ChapterListOf(tasks[i].sid))]
     \/ \E m \in FailMsgs("listChapters") :
          tasks' = [tasks EXCEPT ![i].cr = Fail(m)]
  /\ UNCHANGED <<reader, modal, mounted, app, server>>

(* ------------------- StoryReader: handler continuations ---------------- *)
\* Promise.all([getStory, listChapters]) of a task has resolved / rejected
LoadResolved(t) == t.sr.st = "ok" /\ t.cr.st = "ok"
LoadRejected(t) == t.sr.st = "fail" \/ t.cr.st = "fail"

\* variant: the catch of loadStory records an empty message
RejectionsSilent(t) == {""}
\* the rejection Promise.all passes on: that of a fetch that failed
Rejections(t) ==
  {t.sr.msg : x \in {1} \cap (IF t.sr.st = "fail" THEN {1} ELSE {})} \cup
  {t.cr.msg : x \in {1} \cap (IF t.cr.st = "fail" THEN {1} ELSE {})}

\* loadStory after its await: what it leaves in story, chapters, ending and
\* selectedChapter (84-115); the catch branch leaves them alone
\* variant: the snapshot applied as soon as its own fetch has succeeded
AppliedStoryEarly(old, t) == IF t.sr.st = "ok" THEN t.sr.val ELSE old
AppliedStory(old, t) == IF LoadResolved(t) THEN t.sr.val ELSE old
\* variant: the reload leaves the chapter list as it was
AppliedChaptersStale(old, t) == old
AppliedChapters(old, t) ==
  IF LoadResolved(t) THEN RegularChapters(t.cr.val) ELSE old
AppliedEnding(old, t) ==
  IF LoadResolved(t) THEN LoadedEnding(old, t.cr.val) ELSE old
AppliedSelection(old, t) ==
  IF LoadResolved(t) THEN LoadedSelection(old, t.cr.val) ELSE old

\* variant: setSelectedChapter(-1) issued before the reload instead of
\* after it
SettledSelectionEarly(old, t) ==
  AppliedSelection(IF t.kind = "ending" THEN EndingSel ELSE old, t)
\* selectedChapter when the handler that awaited the reload has ended:
\* handleGenerateEnding sets it to -1 after loadStory (152)
SettledSelection(old, t) ==
  IF t.kind = "ending" THEN EndingSel ELSE AppliedSelection(old, t)

\* variant: handleContinue without its finally block
ContinueCallSettledNoFinally(i) ==
  LET t == tasks[i] IN
  /\ t.kind = "continue" /\ t.pc = "call" /\ t.call # Pending
  /\ IF t.call.st = "ok"
     THEN /\ loading' = TRUE /\ error' = ""
          /\ tasks' = [tasks EXCEPT ![i].pc = "reload"]
     ELSE /\ error' = t.call.msg
          /\ tasks' = Remove(tasks, i)
          /\ UNCHANGED loading
  /\ UNCHANGED <<story, chapters, generating, showModal, ending,
                 generatingEnding, selectedChapter, modal, mounted, app, server>>

\* variant: handleContinue applying the runDay response itself (day_index
\* advanced, story_complete) instead of reloading
ContinueCallSettledOptimistic(i) ==
  LET t == tasks[i] IN
  /\ t.kind = "continue" /\ t.pc = "call" /\ t.call # Pending
  /\ IF t.call.st = "ok"
     THEN /\ story' = [story EXCEPT !.day_index = t.call.val.day_generated + 1,
                                    !.finished = t.call.val.story_complete]
          /\ UNCHANGED error
     ELSE /\ error' = t.call.msg
          /\ UNCHANGED story
  /\ generating' = FALSE
  /\ tasks' = Remove(tasks, i)
  /\ UNCHANGED <<chapters, loading, showModal, ending, generatingEnding,
                 selectedChapter, modal, mounted, app, server>>

\* handleContinue after `await api.runDay`: on success the synchronous part
\* of loadStory, on failure catch and finally
ContinueCallSettled(i) ==
  LET t == tasks[i] IN
  /\ t.kind = "continue" /\ t.pc = "call" /\ t.call # Pending
  /\ IF t.call.st = "ok"
     THEN /\ loading' = TRUE /\ error' = ""
          /\ tasks' = [tasks EXCEPT ![i].pc = "reload"]
          /\ UNCHANGED generating
     ELSE /\ error' = t.call.msg
          /\ generating' = FALSE
          /\ tasks' = Remove(tasks, i)
          /\ UNCHANGED loading
  /\ UNCHANGED <<story, chapters, showModal, ending, generatingEnding,
                 selectedChapter, modal, mounted, app, server>>

\* variant: handleGenerateEnding without its finally block
EndingCallSettledNoFinally(i) ==
  LET t == tasks[i] IN
  /\ t.kind = "ending" /\ t.pc = "call" /\ t.call # Pending
  /\ IF t.call.st = "ok"
     THEN /\ ending' = t.call.val
          /\ loading' = TRUE /\ error' = ""
          /\ tasks' = [tasks EXCEPT ![i].pc = "reload"]
     ELSE /\ error' = t.call.msg
          /\ tasks' = Remove(tasks, i)
          /\ UNCHANGED <<ending, loading>>
  /\ UNCHANGED <<story, chapters, generating, generatingEnding, showModal,
                 selectedChapter, modal, mounted, app, server>>
\* variant: handleGenerateEnding without setEnding(result)
EndingCallSettledNoSet(i) ==
  LET t == tasks[i] IN
  /\ t.kind = "ending" /\ t.pc = "call" /\ t.call # Pending
  /\ IF t.call.st = "ok"
     THEN /\ loading' = TRUE /\ error' = ""
          /\ tasks' = [tasks EXCEPT ![i].pc = "reload"]
          /\ UNCHANGED generatingEnding
     ELSE /\ error' = t.call.msg
          /\ generatingEnding' = FALSE
          /\ tasks' = Remove(tasks, i)
          /\ UNCHANGED loading
  /\ UNCHANGED <<story, chapters, generating, showModal, selectedChapter,
                 ending, modal, mounted, app, server>>
\* handleGenerateEnding after `await api.generateEnding`: on success
\* setEnding(result) and the synchronous part of loadStory, on failure
\* catch and finally
EndingCallSettled(i) ==
  LET t == tasks[i] IN
  /\ t.kind = "ending" /\ t.pc = "call" /\ t.call # Pending
  /\ IF t.call.st = "ok"
     THEN /\ ending' = t.call.val
          /\ loading' = TRUE /\ error' = ""
          /\ tasks' = [tasks EXCEPT ![i].pc = "reload"]
          /\ UNCHANGED generatingEnding
     ELSE /\ error' = t.call.msg
          /\ generatingEnding' = FALSE
          /\ tasks' = Remove(tasks, i)
          /\ UNCHANGED <<ending, loading>>
  /\ UNCHANGED <<story, chapters, generating, showModal, selectedChapter,
                 modal, mounted, app, server>>

\* loadStory after `await Promise.all(...)` (84-120), followed in the same
\* browser task by the rest of the handler that awaited it: the finally of
\* handleContinue, or setSelectedChapter(-1) and the finally of
\* handleGenerateEnding
ReloadSettled(i) ==
  LET t == tasks[i] IN
  /\ t.pc = "reload"
  /\ LoadResolved(t) \/ LoadRejected(t)
  /\ story' = AppliedStory(story, t)
  /\ chapters' = AppliedChapters(chapters, t)
  /\ ending' = AppliedEnding(ending, t)
  /\ selectedChapter' = SettledSelection(selectedChapter, t)
  /\ IF LoadRejected(t) THEN error' \in Rejections(t)
     ELSE UNCHANGED error
  /\ loading' = FALSE
  /\ generating' = IF t.kind = "continue" THEN FALSE ELSE generating
  /\ generatingEnding' = IF t.kind = "ending" THEN FALSE ELSE generatingEnding
  /\ tasks' = Remove(tasks, i)
  /\ UNCHANGED <<showModal, modal, mounted, app, server>>

(* ------------------------------ Next ----------------------------------- *)
Next ==
  \/ MountEffect
  \/ ClickContinue
  \/ ClickStartWriting
  \/ CloseModal
  \/ SelectEmotion
  \/ HandleSubmit
  \/ HandleGenerateEndingStart
  \/ SelectChapter
  \/ SelectEnding
  \/ DismissError
  \/ \E i \in Idx : ServerRunDay(i)
  \/ \E i \in Idx : ServerGenerateEnding(i)
  \/ \E i \in Idx : ServerGetStory(i)
  \/ \E i \in Idx : ServerListChapters(i)
  \/ \E i \in Idx : ContinueCallSettled(i)
  \/ \E i \in Idx : EndingCallSettled(i)
  \/ \E i \in Idx : ReloadSettled(i)

Spec == Init /\ [][Next]_vars

\* every remote call that was issued is answered and every continuation
\* whose promise has settled runs (the event loop), as does a pending effect
Responds ==
  /\ WF_vars(\E i \in Idx : ServerRunDay(i))
  /\ WF_vars(\E i \in Idx : ServerGenerateEnding(i))
  /\ WF_vars(\E i \in Idx : ServerGetStory(i))
  /\ WF_vars(\E i \in Idx : ServerListChapters(i))
  /\ WF_vars(\E i \in Idx : ContinueCallSettled(i))
  /\ WF_vars(\E i \in Idx : EndingCallSettled(i))
  /\ WF_vars(\E i \in Idx : ReloadSettled(i))
  /\ WF_vars(MountEffect)

SpecLive == Init /\ [][Next]_vars /\ Responds

(* ------------------- App and Landing: opening a story ------------------ *)
\* the state a StoryReader instance is constructed with (useState, 49-59);
\* the requests of an unmounted instance are abandoned with it
FreshReader ==
  /\ story' = Null /\ chapters' = <<>> /\ loading' = TRUE
  /\ generating' = FALSE /\ error' = "" /\ showModal' = FALSE
  /\ ending' = Null /\ generatingEnding' = FALSE
  /\ selectedChapter' = NullSel
  /\ selectedEmotion' = "" /\ submitting' = FALSE
  /\ mounted' = FALSE
  /\ tasks' = <<>>

\* App.handleSelectStory: the reader for the story is rendered; a reader
\* that is already rendered stays mounted with its state, and its effect
\* runs again because loadStory depends on storyId
HandleSelectStory(sid) ==
  /\ selectedStoryId' = sid /\ view' = "reader"
  /\ IF ReaderRendered
     THEN /\ mounted' = (mounted /\ sid = selectedStoryId)
          /\ UNCHANGED <<reader, modal, tasks>>
     ELSE FreshReader

\* Landing: onClick={() => onSelectStory(story.story_id)} of a story card
SelectStory ==
  /\ view = "landing"
  /\ HandleSelectStory(StoryA)
  /\ UNCHANGED <<creatingFromDemo, server, landing>>

\* Landing.handleStartDemo up to its await; one call at a time
HandleStartDemo ==
  /\ view = "landing" /\ ~creatingFromDemo
  /\ creatingFromDemo' = TRUE
  /\ UNCHANGED <<reader, modal, mounted, tasks, server, view, selectedStoryId,
                 landing>>

\* createStoryFromDemo resolved: onSelectStory(result.story_id), whether or
\* not the Landing that started the call is still mounted
DemoCreated ==
  /\ creatingFromDemo
  /\ creatingFromDemo' = FALSE
  /\ HandleSelectStory(StoryB)
  /\ UNCHANGED <<server, landing>>

\* createStoryFromDemo rejected: only Landing state is set
DemoFailed ==
  /\ creatingFromDemo
  /\ creatingFromDemo' = FALSE
  /\ UNCHANGED <<reader, modal, mounted, tasks, server, view, selectedStoryId,
                 landing>>

\* App.handleBack, from the Back buttons of the error view and the main view
HandleBack ==
  /\ ErrorView \/ MainView
  /\ view' = "landing" /\ selectedStoryId' = NoStory
  /\ FreshReader
  /\ UNCHANGED <<creatingFromDemo, server, landing>>

\* the application starts on the landing page; the story listed there is a
\* finished one (the days of a story are the subject of Spec)
InitApp ==
  /\ story = Null /\ chapters = <<>> /\ loading = TRUE
  /\ generating = FALSE /\ error = "" /\ showModal = FALSE
  /\ ending = Null /\ generatingEnding = FALSE
  /\ selectedChapter = NullSel
  /\ selectedEmotion = "" /\ submitting = FALSE
  /\ mounted = FALSE
  /\ tasks = <<>>
  /\ view = "landing" /\ selectedStoryId = NoStory
  /\ creatingFromDemo = FALSE
  /\ LandingConstructed
  /\ srvDay \in 1..(MaxDays + 1)
  /\ srvFinished = TRUE
  /\ srvDay > 1
  /\ srvPrologue \in BOOLEAN
  /\ srvOrder \in {"asc", "desc"}
  /\ srvEnding \in {Null} \cup EndingRecords
  /\ srvEnding # Null => (srvFinished \/ srvDay > MaxDays)

NextApp ==
  \/ Next
  \/ SelectStory
  \/ HandleStartDemo
  \/ DemoCreated
  \/ DemoFailed
  \/ HandleBack

SpecApp == InitApp /\ [][NextApp]_vars

(* --------------- the projector of loadStory on any list ---------------- *)
\* the records a chapter list is made of, and the lists up to MaxRecords
\* (with an ending record whose payload has an empty ending_type and lacks
\* unresolved_threads)
PartialEndingRecord ==
  EndingRecord("", [ending_type |-> "", resolved_threads |-> <<"t1">>])
ListRecords ==
  {RegularChapter(0), RegularChapter(1), PartialEndingRecord} \cup EndingRecords
RecordLists == UNION {[1..n -> ListRecords] : n \in 0..MaxRecords}

\* a mounted reader whose first loadStory has received both responses, the
\* chapter list being any list
InitProjector ==
  /\ story = Null /\ chapters = <<>> /\ loading = TRUE
  /\ generating = FALSE /\ error = "" /\ showModal = FALSE
  /\ ending = Null /\ generatingEnding = FALSE
  /\ selectedChapter = NullSel
  /\ selectedEmotion = "" /\ submitting = FALSE
  /\ mounted = TRUE
  /\ view = "reader" /\ selectedStoryId = StoryA
  /\ creatingFromDemo = FALSE
  /\ LandingConstructed
  /\ srvDay = 1 /\ srvFinished = FALSE /\ srvPrologue = FALSE
  /\ srvOrder = "asc" /\ srvEnding = Null
  /\ \E list \in RecordLists :
       tasks = <<[Task("load", Null) EXCEPT !.sr = Ok(SrvSnapshot),
                                          !.cr = Ok(list)]>>

NextProjector == \E i \in Idx : ReloadSettled(i)

SpecProjector == InitProjector /\ [][NextProjector]_vars

(* ------------------- getDominantEnding on any vector -------------------- *)
\* Array.prototype.sort with (a, b) => b - a: descending by score, stable.
\* variant: an entry is placed before the entries of equal score
InsertDescFirst(sorted, x) ==
  LET before == SelectSeq(sorted, LAMBDA y : y.score > x.score)
      after == SelectSeq(sorted, LAMBDA y : y.score <= x.score)
  IN before \o <<x>> \o after
\* the entry x, which follows those of `sorted` in the array, in its place
InsertDesc(sorted, x) ==
  LET before == SelectSeq(sorted, LAMBDA y : y.score >= x.score)
      after == SelectSeq(sorted, LAMBDA y : y.score < x.score)
  IN before \o <<x>> \o after
RECURSIVE SortDesc(_)
SortDesc(entries) ==
  IF entries = <<>> THEN <<>>
  ELSE InsertDesc(SortDesc(SubSeq(entries, 1, Len(entries) - 1)),
                  entries[Len(entries)])

\* getDominantEnding (166-173); Object.entries(story.ending_vector) is the
\* sequence of the vector's entries in insertion order
GetDominantEnding(s) ==
  IF s = Null \/ "ending_vector" \notin DOMAIN s THEN Null
  ELSE LET entries == s.ending_vector
       IN IF Len(entries) = 0 THEN Null
          ELSE LET sorted == SortDesc(entries)
               IN [type |-> sorted[1].type, score |-> sorted[1].score]

\* the ending_vector mappings of up to MaxTypes entries
VectorTypes == <<"redemption", "tragedy", "mystery", "triumph", "escape">>
VectorEntries ==
  [type : {VectorTypes[j] : j \in 1..MaxTypes}, score : 0..MaxScore]
EndingVectors ==
  UNION {{v \in [1..n -> VectorEntries] :
            \A j, k \in 1..n : v[j].type = v[k].type => j = k} :
         n \in 0..MaxTypes}

\* the StoryStatus responses: with an ending_vector, or without one
VectorSnapshots ==
  {SrvSnapshot} \cup
  {[story_id |-> StoryA, day_index |-> srvDay, max_days |-> MaxDays,
    finished |-> srvFinished, ending_vector |-> v] : v \in EndingVectors}

\* a mounted reader whose first loadStory has received both responses, the
\* snapshot carrying any ending_vector
InitDominant ==
  /\ story = Null /\ chapters = <<>> /\ loading = TRUE
  /\ generating = FALSE /\ error = "" /\ showModal = FALSE
  /\ ending = Null /\ generatingEnding = FALSE
  /\ selectedChapter = NullSel
  /\ selectedEmotion = "" /\ submitting = FALSE
  /\ mounted = TRUE
  /\ view = "reader" /\ selectedStoryId = StoryA
  /\ creatingFromDemo = FALSE
  /\ LandingConstructed
  /\ srvDay = 1 /\ srvFinished = FALSE /\ srvPrologue = FALSE
  /\ srvOrder = "asc" /\ srvEnding = Null
  /\ \E snapshot \in VectorSnapshots :
       tasks = <<[Task("load", Null) EXCEPT !.sr = Ok(snapshot),
                                          !.cr = Ok(SrvChapterList)]>>

NextDominant == \E i \in Idx : ReloadSettled(i)

SpecDominant == InitDominant /\ [][NextDominant]_vars

(* ------------------ repository functions on a response ----------------- *)
\* a fetch Response: its status and its body (nothing, text that is not
\* JSON, or a JSON object)
EmptyBody == [kind |-> "empty"]
TextBody == [kind |-> "text"]
JsonBody(value) == [kind |-> "json", value |-> value]
Bodies ==
  {EmptyBody, TextBody, JsonBody([detail |-> "boom"]),
   JsonBody([detail |-> ""]), JsonBody([message |-> "x"])}
Statuses == {200, 204, 404, 500}
Responses == [status : Statuses, body : Bodies]

\* response.ok
ResponseOk(r) == r.status >= 200 /\ r.status <= 299

\* response.json(): the parsed object, or the rejection of the parser
SyntaxMsg == [empty |-> "Unexpected end of JSON input",
              text |-> "Unexpected token"]
ResponseJson(r) ==
  IF r.body.kind = "json" THEN Ok(r.body.value)
  ELSE Fail(SyntaxMsg[r.body.kind])

\* the check that makes a repository function throw: !response.ok, for
\* deleteStory !response.ok && response.status !== 204
Raises(op, r) ==
  IF op = "deleteStory" THEN ~ResponseOk(r) /\ r.status # 204
  ELSE ~ResponseOk(r)

\* variant: deleteStory reads the body of every response
RepositoryCallParsed(op, r) ==
  IF Raises(op, r)
  THEN LET parsed == ResponseJson(r)
       IN IF parsed.st = "fail" THEN parsed
          ELSE Fail(IF "detail" \in DOMAIN parsed.val /\ parsed.val.detail # ""
                    THEN parsed.val.detail ELSE GenericMsg[op])
  ELSE ResponseJson(r)
\* getStory, runDay, listChapters, generateEnding, listStories (each: throw
\* new Error(error.detail || generic), else return response.json()) and
\* deleteStory (returns nothing)
RepositoryCall(op, r) ==
  IF Raises(op, r)
  THEN LET parsed == ResponseJson(r)
       IN IF parsed.st = "fail" THEN parsed
          ELSE Fail(IF "detail" \in DOMAIN parsed.val /\ parsed.val.detail # ""
                    THEN parsed.val.detail ELSE GenericMsg[op])
  ELSE IF op = "deleteStory" THEN Ok(Null) ELSE ResponseJson(r)

RepositoryOps == DOMAIN GenericMsg

\* a repository function has received any response and has not resumed
InitRepository ==
  /\ story = Null /\ chapters = <<>> /\ loading = TRUE
  /\ generating = FALSE /\ error = "" /\ showModal = FALSE
  /\ ending = Null /\ generatingEnding = FALSE
  /\ selectedChapter = NullSel
  /\ selectedEmotion = "" /\ submitting = FALSE
  /\ mounted = TRUE
  /\ view = "reader" /\ selectedStoryId = StoryA
  /\ creatingFromDemo = FALSE
  /\ LandingConstructed
  /\ srvDay = 1 /\ srvFinished = FALSE /\ srvPrologue = FALSE
  /\ srvOrder = "asc" /\ srvEnding = Null
  /\ \E op \in RepositoryOps, r \in Responses :
       tasks = <<[kind |-> "repository", pc |-> "response", op |-> op,
                  resp |-> r, call |-> Pending]>>

\* the function resumes after `await fetch(...)` and settles its promise
RepositorySettled(i) ==
  /\ tasks[i].kind = "repository" /\ tasks[i].call = Pending
  /\ tasks' = [tasks EXCEPT
                 ![i].call = RepositoryCall(tasks[i].op, tasks[i].resp)]
  /\ UNCHANGED <<reader, modal, mounted, app, server>>

NextRepository == \E i \in Idx : RepositorySettled(i)

SpecRepository == InitRepository /\ [][NextRepository]_vars

(* ------------------------ Landing: the story list ---------------------- *)
LandingRendered == view = "landing"
LandingIdx == 1..Len(landingTasks)
LandingTask(k, id) ==
  [kind |-> k, id |-> id, closure |-> stories, resp |-> Pending]

\* loadData up to its await, from the mount effect or the Refresh button
\* (disabled={loading}); of its two requests the story list is modelled
LoadData ==
  /\ LandingRendered
  /\ ~landingMounted \/ ~landingLoading
  /\ Len(landingTasks) < MaxTasks
  /\ landingMounted' = TRUE
  /\ landingLoading' = TRUE /\ landingError' = ""
  /\ landingTasks' = Append(landingTasks, LandingTask("loadData", NoStory))
  /\ UNCHANGED <<stories, deletingId, srvStories>>
  /\ UNCHANGED <<reader, modal, mounted, tasks, server, view,
                 selectedStoryId, creatingFromDemo>>

\* handleDeleteStory up to its await, the user having confirmed; the
\* continuation keeps the `stories` of the render the click happened in
HandleDeleteStory(id) ==
  /\ LandingRendered
  /\ id \in stories /\ deletingId # id
  /\ Len(landingTasks) < MaxTasks
  /\ deletingId' = id
  /\ landingTasks' = Append(landingTasks, LandingTask("delete", id))
  /\ UNCHANGED <<stories, landingLoading, landingError, landingMounted,
                 srvStories>>
  /\ UNCHANGED <<reader, modal, mounted, tasks, server, view,
                 selectedStoryId, creatingFromDemo>>

\* GET /api/stories answered: the list, or a failure
ServerListStories(i) ==
  /\ landingTasks[i].kind = "loadData" /\ landingTasks[i].resp = Pending
  /\ \E r \in {Ok(srvStories), Fail(GenericMsg.listStories)} :
       landingTasks' = [landingTasks EXCEPT ![i].resp = r]
  /\ UNCHANGED <<stories, landingLoading, landingError, deletingId,
                 landingMounted, srvStories>>
  /\ UNCHANGED <<reader, modal, mounted, tasks, server, view,
                 selectedStoryId, creatingFromDemo>>

\* DELETE /api/stories/{id} answered: a story that exists is deleted with a
\* 2xx response, or the request fails
ServerDeleteStory(i) ==
  /\ landingTasks[i].kind = "delete" /\ landingTasks[i].resp = Pending
  /\ \E r \in Responses :
       /\ landingTasks' = [landingTasks EXCEPT ![i].resp = r]
       /\ IF ResponseOk(r)
          THEN /\ landingTasks[i].id \in srvStories
               /\ srvStories' = srvStories \ {landingTasks[i].id}
          ELSE UNCHANGED srvStories
  /\ UNCHANGED <<stories, landingLoading, landingError, deletingId,
                 landingMounted>>
  /\ UNCHANGED <<reader, modal, mounted, tasks, server, view,
                 selectedStoryId, creatingFromDemo>>

\* loadData after its await (70-81)
LoadDataSettled(i) ==
  LET t == landingTasks[i] IN
  /\ t.kind = "loadData" /\ t.resp # Pending
  /\ IF t.resp.st = "ok"
     THEN stories' = t.resp.val /\ UNCHANGED landingError
     ELSE landingError' = t.resp.msg /\ UNCHANGED stories
  /\ landingLoading' = FALSE
  /\ landingTasks' = Remove(landingTasks, i)
  /\ UNCHANGED <<deletingId, landingMounted, srvStories>>
  /\ UNCHANGED <<reader, modal, mounted, tasks, server, view,
                 selectedStoryId, creatingFromDemo>>

\* stories.filter((s) => s.story_id !== storyId) over the `stories` of the
\* handler's closure (95)
RemainingStories(t) == t.closure \ {t.id}

\* handleDeleteStory after `await api.deleteStory` (94-101)
DeleteSettled(i) ==
  LET t == landingTasks[i]
      result == RepositoryCall("deleteStory", t.resp)
  IN /\ t.kind = "delete" /\ t.resp # Pending
     /\ IF result.st = "ok"
        THEN stories' = RemainingStories(t) /\ UNCHANGED landingError
        ELSE landingError' = result.msg /\ UNCHANGED stories
     /\ deletingId' = NoStory
     /\ landingTasks' = Remove(landingTasks, i)
     /\ UNCHANGED <<landingLoading, landingMounted, srvStories>>
     /\ UNCHANGED <<reader, modal, mounted, tasks, server, view,
                    selectedStoryId, creatingFromDemo>>

\* the application on its landing page; the server lists any of the stories
InitLanding ==
  /\ story = Null /\ chapters = <<>> /\ loading = TRUE
  /\ generating = FALSE /\ error = "" /\ showModal = FALSE
  /\ ending = Null /\ generatingEnding = FALSE
  /\ selectedChapter = NullSel
  /\ selectedEmotion = "" /\ submitting = FALSE
  /\ mounted = FALSE
  /\ tasks = <<>>
  /\ view = "landing" /\ selectedStoryId = NoStory
  /\ creatingFromDemo = FALSE
  /\ stories = {} /\ landingLoading = TRUE /\ landingError = ""
  /\ deletingId = NoStory
  /\ landingMounted = FALSE
  /\ landingTasks = <<>>
  /\ srvStories \in SUBSET {StoryA, StoryB}
  /\ srvDay = 1 /\ srvFinished = FALSE /\ srvPrologue = FALSE
  /\ srvOrder = "asc" /\ srvEnding = Null

NextLanding ==
  \/ LoadData
  \/ \E id \in {StoryA, StoryB} : HandleDeleteStory(id)
  \/ \E i \in LandingIdx : ServerListStories(i)
  \/ \E i \in LandingIdx : ServerDeleteStory(i)
  \/ \E i \in LandingIdx : LoadDataSettled(i)
  \/ \E i \in LandingIdx : DeleteSettled(i)

SpecLanding == InitLanding /\ [][NextLanding]_vars

(* ======================= properties of the session ===================== *)
\* the step starts a handler of kind k (handleContinue / handleGenerateEnding
\* run up to their remote call)
Started(k) ==
  /\ Len(tasks') = Len(tasks) + 1
  /\ tasks'[Len(tasks')].kind = k

\* the step is the continuation that ends task i
Finished(i) == tasks' = Remove(tasks, i)

\* the snapshot a request would be judged by
Eligible == ~story.finished /\ story.day_index <= story.max_days

\* the numerically largest day of a chapter list
Days(chs) == {chs[j].day : j \in 1..Len(chs)}
MostRecentDay(chs) == CHOOSE d \in Days(chs) : \A e \in Days(chs) : e <= d

\* what a fresh StoryReader holds after loading the given responses
FreshChapters(list) == RegularChapters(list)
FreshEnding(list) == LoadedEnding(Null, list)
FreshSelection(list) == LoadedSelection(NullSel, list)

\* C1: while a day submission or an ending submission is in flight
\* (generating or generatingEnding is true), no further runDay call is
\* started.
C1_NoAdvanceWhileInFlight ==
  [][Started("continue") => ~generating /\ ~generatingEnding]_vars

\* C2: a day submission and an ending submission are never in flight
\* together: generating and generatingEnding are never both true.
C2_NeverBothGenerating == ~(generating /\ generatingEnding)

C4_AtomicReload ==
  [][\/ story' = story /\ chapters' = chapters
     \/ \E i \in Idx : /\ tasks[i].pc = "reload" /\ LoadResolved(tasks[i])
                       /\ Finished(i)
                       /\ story' = tasks[i].sr.val
                       /\ chapters' = RegularChapters(tasks[i].cr.val)]_vars

\* a reload holds a new snapshot while its chapter fetch has failed
C4_Witness ==
  \E i \in Idx : /\ tasks[i].pc = "reload"
                 /\ tasks[i].sr.st = "ok" /\ tasks[i].cr.st = "fail"
                 /\ story # Null /\ story # tasks[i].sr.val

\* C5: when runDay or generateEnding fails, the handler ends with its flag
\* (generating / generatingEnding) false, with snapshot, chapters and
\* ending unchanged, and with the failure message as the shown error.
C5_MutationFailure ==
  [][\A i \in Idx :
       (tasks[i].pc = "call" /\ tasks[i].call.st = "fail" /\ Finished(i))
       => /\ story' = story /\ chapters' = chapters /\ ending' = ending
          /\ error' = tasks[i].call.msg
          /\ tasks[i].kind = "continue" => ~generating'
          /\ tasks[i].kind = "ending" => ~generatingEnding']_vars

\* a submission has failed and its handler has not yet resumed
C5_Witness ==
  \E i \in Idx : /\ tasks[i].pc = "call" /\ tasks[i].call.st = "fail"
                 /\ chapters # <<>>

\* C6: a runDay call is started only when the held snapshot has
\* finished = false and day_index <= max_days.
C6_AdvanceOnlyWhenEligible ==
  [][Started("continue") => story # Null /\ Eligible]_vars

\* C7: a generateEnding call is started only when the held snapshot has
\* finished = true or day_index > max_days, and no Ending is held.
C7_EndingOnlyWhenDue ==
  [][Started("ending") =>
       /\ story # Null
       /\ story.finished \/ story.day_index > story.max_days
       /\ ending = Null]_vars

\* an ending submission is in flight
C7_Witness == \E i \in Idx : tasks[i].kind = "ending" /\ tasks[i].pc = "call"

\* C8: a successful load of at least one non-ending chapter (ending
\* sentinel not requested) selects the chapter with the largest day.
C8_SelectsMostRecent ==
  [][\A i \in Idx :
       (/\ tasks[i].pc = "reload" /\ tasks[i].kind # "ending"
        /\ LoadResolved(tasks[i]) /\ Finished(i)
        /\ RegularChapters(tasks[i].cr.val) # <<>>)
       => selectedChapter' = MostRecentDay(chapters')]_vars

\* C9: after a manual selection (a held chapter other than the one a load
\* selects), a successful reload with the same chapter list resets the
\* selection to the most recent chapter, whichever chapter was selected.
C9_SelectionNotSticky ==
  [][\A i \in Idx :
       (/\ tasks[i].pc = "reload" /\ tasks[i].kind # "ending"
        /\ LoadResolved(tasks[i]) /\ Finished(i)
        /\ chapters # <<>> /\ selectedChapter \in Days(chapters)
        /\ selectedChapter # chapters[1].day
        /\ RegularChapters(tasks[i].cr.val) = chapters)
       => selectedChapter' = MostRecentDay(chapters)]_vars

\* C10: when the handler of a successful ending submission ends, the
\* selection is the ending sentinel, an Ending is held and
\* generatingEnding is false.
C10_EndingSelected ==
  [][\A i \in Idx :
       (tasks[i].kind = "ending" /\ tasks[i].pc = "reload" /\ Finished(i))
       => /\ selectedChapter' = EndingSel
          /\ ending' # Null
          /\ ~generatingEnding']_vars

\* an ending submission has succeeded and its reload is about to select a
\* chapter
C10_Witness ==
  \E i \in Idx : /\ tasks[i].kind = "ending" /\ tasks[i].pc = "reload"
                 /\ LoadResolved(tasks[i])
                 /\ RegularChapters(tasks[i].cr.val) # <<>>

\* C11: once an Ending is held it stays held (non-null) in every later
\* state, whatever a reload returns, and no generateEnding call is started
\* any more.
C11_EndingKept ==
  [][ending # Null => ending' # Null /\ ~Started("ending")]_vars

\* an Ending is held while a reload has received a list without an ending
\* record
C11_Witness ==
  /\ ending # Null
  /\ \E i \in Idx : /\ tasks[i].pc = "reload" /\ LoadResolved(tasks[i])
                    /\ EndingChapter(tasks[i].cr.val) = Null

\* C12: the Ending held after a successful reload is a function of the
\* record list alone (two reloads of the same list hold equal Endings), and
\* after a successful generate-ending and reload it is the Ending a fresh
\* load of the persisted records derives, not the generateEnding response.
C12_EndingRederived ==
  [][\A i \in Idx :
       (tasks[i].pc = "reload" /\ LoadResolved(tasks[i]) /\ Finished(i))
       => /\ ending' = FreshEnding(tasks[i].cr.val)
          /\ tasks[i].kind = "ending"
               => ending' = FreshEnding(SrvChapterList')]_vars

\* the operation whose failure an error message reports
LoadMsgs == {GenericMsg.getStory, GenericMsg.listChapters}
AdvanceMsgs == {GenericMsg.runDay}
EndingMsgs == {GenericMsg.generateEnding}

\* some control of the reader can be used by the user
ReaderControl ==
  \/ ClickContinue
  \/ ClickStartWriting
  \/ CloseModal
  \/ SelectEmotion
  \/ HandleSubmit
  \/ HandleGenerateEndingStart
  \/ SelectChapter
  \/ SelectEnding
  \/ DismissError

\* C13: a failed load keeps snapshot and chapters and records its error.  With
\* a snapshot held the main view stays and shows the error as a banner that
\* can be dismissed; with none held the reader shows the load-error display,
\* in which no control of the session can be used.  The reader never shows
\* the empty display.
C13_LoadFailure ==
  /\ [](~BlankView)
  /\ []((MainView /\ error # "") => ENABLED DismissError)
  /\ [](ErrorView => ~ENABLED ReaderControl)
  /\ [][\A i \in Idx :
          (tasks[i].pc = "reload" /\ LoadRejected(tasks[i]) /\ Finished(i))
          => /\ story' = story /\ chapters' = chapters
             /\ error' \in LoadMsgs
             /\ IF story # Null THEN MainView' ELSE ErrorView']_vars

\* a load has failed while a snapshot was held: the banner shows its error
C13_Witness == MainView /\ error \in LoadMsgs /\ ~loading /\ tasks = <<>>

\* the step is a step of the given operation: the handler's start or its
\* catch for advance and ending, the start or the end of loadStory for load
AdvanceStep ==
  \/ Started("continue")
  \/ \E i \in Idx : tasks[i].kind = "continue" /\ tasks[i].pc = "call"
                    /\ Finished(i)
EndingStep ==
  \/ Started("ending")
  \/ \E i \in Idx : tasks[i].kind = "ending" /\ tasks[i].pc = "call"
                    /\ Finished(i)
LoadStep ==
  \/ Started("load")
  \/ \E i \in Idx : /\ Len(tasks') = Len(tasks)
                    /\ tasks[i].pc = "call" /\ tasks'[i].pc = "reload"
  \/ \E i \in Idx : tasks[i].pc = "reload" /\ Finished(i)

\* C14: each operation has its own error slot: a recorded error is cleared
\* or replaced only by its dismissal or by a step of the operation that
\* recorded it, never by a step of another operation.
C14_OwnErrorSlot ==
  [][(error # "" /\ error' # error)
     => \/ error' = "" /\ tasks' = tasks
        \/ error \in LoadMsgs /\ LoadStep
        \/ error \in AdvanceMsgs /\ AdvanceStep
        \/ error \in EndingMsgs /\ EndingStep]_vars

\* C15: every failed remote call is reported: when a reload ends, the
\* failure of each of its fetches that failed is the error recorded, also
\* when both fetches failed.
C15_EveryFailureSurfaced ==
  [][\A i \in Idx :
       (tasks[i].pc = "reload" /\ Finished(i))
       => /\ tasks[i].sr.st = "fail" => error' = tasks[i].sr.msg
          /\ tasks[i].cr.st = "fail" => error' = tasks[i].cr.msg]_vars

\* C16: dismissing the error banner changes the shown error only:
\* snapshot, chapters, ending, selection, the modal and the three flags are
\* as before, also while an operation is in flight.
C16_DismissFrame ==
  [][(error # "" /\ error' = "" /\ tasks' = tasks)
     => /\ story' = story /\ chapters' = chapters /\ ending' = ending
        /\ selectedChapter' = selectedChapter
        /\ loading' = loading /\ generating' = generating
        /\ generatingEnding' = generatingEnding
        /\ showModal' = showModal /\ modal' = modal]_vars

\* the banner is shown, with the modal open, while an operation is in
\* flight
C16_Witness ==
  MainView /\ error # "" /\ showModal /\ tasks # <<>>

\* C18: no two reloads of the session are in flight at the same time.
C18_OneReload ==
  Cardinality({i \in Idx : tasks[i].pc = "reload"}) <= 1

\* C19 (as claimed): the handler of a successful day submission ends only
\* after getStory and listChapters have both been issued and settled.
C19_BothFetchesSettled ==
  [][\A i \in Idx :
       (tasks[i].kind = "continue" /\ tasks[i].call.st = "ok" /\ Finished(i))
       => /\ tasks[i].pc = "reload"
          /\ tasks[i].sr # Pending /\ tasks[i].cr # Pending]_vars

\* C19 (amended): after a successful runDay the handler does not end and
\* does not touch snapshot or chapters: it issues both fetches of a reload,
\* and ends only when that reload has ended, which is when both fetches
\* have succeeded or one of them has failed.
C19_ReloadBeforeIdle ==
  [][\A i \in Idx :
       /\ (tasks[i].kind = "continue" /\ tasks[i].pc = "call"
           /\ tasks[i].call.st = "ok")
          => /\ ~Finished(i)
             /\ (Len(tasks') = Len(tasks) /\ tasks'[i] # tasks[i])
                => /\ tasks'[i].pc = "reload"
                   /\ tasks'[i].sr = Pending /\ tasks'[i].cr = Pending
                   /\ story' = story /\ chapters' = chapters
                   /\ generating' = generating
       /\ (tasks[i].kind = "continue" /\ tasks[i].pc = "reload"
           /\ Finished(i))
          => LoadResolved(tasks[i]) \/ LoadRejected(tasks[i])]_vars

\* a day submission has succeeded and its handler has not resumed
C19_Witness ==
  \E i \in Idx : /\ tasks[i].kind = "continue" /\ tasks[i].pc = "call"
                 /\ tasks[i].call.st = "ok" /\ generating

\* C17: whenever the reader is idle, the held snapshot is that of the story
\* that is open, and a held Ending is one of that story (the story created
\* from a demo has none).
C17_OwnStory ==
  (MainView /\ mounted /\ tasks = <<>>)
  => /\ story.story_id = selectedStoryId
     /\ selectedStoryId = StoryB => ending = Null

\* C20: a successful reload holds exactly the records of its list whose
\* chapter_type is not "ending", in the order of the list, and derives the
\* Ending from the first record whose chapter_type is "ending", none when
\* the list has no such record.
C20_Partition ==
  [][\A i \in Idx :
       (tasks[i].pc = "reload" /\ LoadResolved(tasks[i]) /\ Finished(i))
       => LET list == tasks[i].cr.val
              keep == {j \in 1..Len(list) : list[j].chapter_type # "ending"}
              es == {j \in 1..Len(list) : list[j].chapter_type = "ending"}
          IN /\ Len(chapters') = Cardinality(keep)
             /\ \A j \in keep :
                  chapters'[Cardinality({k \in keep : k <= j})] = list[j]
             /\ IF es = {} THEN ending' = ending
                ELSE ending' =
                       ProjectEnding(list[CHOOSE j \in es :
                                            \A k \in es : j <= k])]_vars

\* a reload has received a list with a chapter between two different ending
\* records
C20_Witness ==
  \E i \in Idx :
    /\ tasks[i].pc = "reload" /\ LoadResolved(tasks[i])
    /\ LET list == tasks[i].cr.val
       IN /\ Len(list) = MaxRecords
          /\ list[1].chapter_type = "ending"
          /\ list[Len(list)].chapter_type = "ending"
          /\ ProjectEnding(list[1]) # ProjectEnding(list[Len(list)])
          /\ \E j \in 1..Len(list) : list[j].chapter_type # "ending"

\* the first ending record of a list, and what its payload lacks
FirstEnding(list) ==
  list[CHOOSE j \in 1..Len(list) :
         /\ list[j].chapter_type = "ending"
         /\ \A k \in 1..(j - 1) : list[k].chapter_type # "ending"]
Lacks(c, f) ==
  \/ c.ending = Null
  \/ f \notin DOMAIN c.ending
  \/ f = "ending_type" /\ c.ending[f] = ""

\* C21: a reload whose ending record has no payload, or a payload lacking
\* fields, is applied like any other: the snapshot and the chapters of the
\* reload are held, and the Ending has ending_type "unknown" and empty thread
\* lists where the payload lacks them.
C21_PayloadDefaults ==
  [][\A i \in Idx :
       (/\ tasks[i].pc = "reload" /\ LoadResolved(tasks[i]) /\ Finished(i)
        /\ \E j \in 1..Len(tasks[i].cr.val) :
             tasks[i].cr.val[j].chapter_type = "ending")
       => LET list == tasks[i].cr.val
              c == FirstEnding(list)
          IN /\ error' = error
             /\ story' = tasks[i].sr.val
             /\ chapters' = RegularChapters(list)
             /\ Lacks(c, "ending_type") => ending'.ending_type = "unknown"
             /\ Lacks(c, "resolved_threads") => ending'.resolved_threads = <<>>
             /\ Lacks(c, "unresolved_threads")
                => ending'.unresolved_threads = <<>>
             /\ ~Lacks(c, "ending_type")
                => ending'.ending_type = c.ending.ending_type
             /\ ~Lacks(c, "resolved_threads")
                => ending'.resolved_threads = c.ending.resolved_threads]_vars

\* a reload has received a list whose first ending record has no payload,
\* after a regular chapter
C21_Witness ==
  \E i \in Idx :
    /\ tasks[i].pc = "reload" /\ LoadResolved(tasks[i])
    /\ Len(tasks[i].cr.val) >= 2
    /\ tasks[i].cr.val[1].chapter_type # "ending"
    /\ tasks[i].cr.val[2].chapter_type = "ending"
    /\ tasks[i].cr.val[2].ending = Null

\* C22: the dominant ending of the held snapshot is an entry of its
\* ending_vector with maximal score, the first such entry in insertion order;
\* a snapshot without ending_vector, or with an empty one, has none.
C22_Dominant ==
  MainView
  => LET d == GetDominantEnding(story)
     IN IF "ending_vector" \notin DOMAIN story THEN d = Null
        ELSE LET v == story.ending_vector
             IN IF v = <<>> THEN d = Null
                ELSE \E j \in 1..Len(v) :
                       /\ d.type = v[j].type /\ d.score = v[j].score
                       /\ \A k \in 1..Len(v) : v[k].score <= v[j].score
                       /\ \A k \in 1..(j - 1) : v[k].score < v[j].score

\* the held snapshot has a vector whose maximum is shared by its second and
\* third entries
C22_Witness ==
  /\ MainView /\ "ending_vector" \in DOMAIN story
  /\ LET v == story.ending_vector
     IN /\ Len(v) = MaxTypes
        /\ v[1].score < v[2].score
        /\ v[2].score = v[Len(v)].score
        /\ \A k \in 1..Len(v) : v[k].score <= v[2].score

\* the session is idle: no flag of an operation is set
Idle == ~loading /\ ~generating /\ ~generatingEnding

\* C23: when every remote call is answered, no flag of an operation stays
\* set for ever: from every state in which loading, generating or
\* generatingEnding is set the session becomes idle again, whether the calls
\* succeed or fail.
C23_EventuallyIdle == ~Idle ~> Idle

\* an ending submission has failed on the server and its handler has not
\* resumed yet
C23_Witness ==
  \E i \in Idx :
    /\ tasks[i].kind = "ending" /\ tasks[i].pc = "call"
    /\ tasks[i].call.st = "fail"
    /\ generatingEnding

\* C24: a successful reload whose list has no chapter other than an ending
\* record, ended by a handler that does not ask for the ending view, leaves
\* nothing selected, whatever was selected before.
C24_NothingSelected ==
  [][\A i \in Idx :
       (/\ tasks[i].pc = "reload" /\ LoadResolved(tasks[i]) /\ Finished(i)
        /\ tasks[i].kind # "ending"
        /\ RegularChapters(tasks[i].cr.val) = <<>>)
       => selectedChapter' = NullSel]_vars

\* the step is the continuation that ends the Landing handler i
LandingFinished(i) == landingTasks' = Remove(landingTasks, i)

\* C25: a delete answered with 204 and an empty body is a success: the
\* repository function resolves, and Landing ends the handler with the story
\* out of the list and no error recorded.
C25_Delete204 ==
  [][\A i \in LandingIdx :
       (/\ landingTasks[i].kind = "delete" /\ landingTasks[i].resp # Pending
        /\ landingTasks[i].resp.status = 204
        /\ landingTasks[i].resp.body = EmptyBody
        /\ LandingFinished(i))
       => /\ landingTasks[i].id \notin stories'
          /\ landingError' = landingError
          /\ deletingId' = NoStory]_vars

\* a delete of a listed story has been answered with 204 and no body
C25_Witness ==
  \E i \in LandingIdx :
    /\ landingTasks[i].kind = "delete" /\ landingTasks[i].resp # Pending
    /\ landingTasks[i].resp.status = 204
    /\ landingTasks[i].resp.body = EmptyBody
    /\ landingTasks[i].id \in stories

\* C26: a repository function that gets a non-2xx response fails with the
\* detail string of the body when the body has one, and with the generic
\* message of the operation when the body has none (no detail, an empty
\* detail, or a body that is not JSON).
C26_DetailOrGeneric ==
  [][\A i \in Idx :
       (/\ tasks[i].kind = "repository" /\ tasks[i].call = Pending
        /\ ~ResponseOk(tasks[i].resp)
        /\ tasks'[i].call # Pending)
       => LET body == tasks[i].resp.body
              detailed == /\ body.kind = "json"
                          /\ "detail" \in DOMAIN body.value
                          /\ body.value.detail # ""
          IN tasks'[i].call =
               Fail(IF detailed THEN body.value.detail
                    ELSE GenericMsg[tasks[i].op])]_vars

\* C29: a handler of handleDeleteStory that ends never brings a story back
\* into the displayed list: the list after it holds no story that the list
\* before it did not hold.
C29_NoReappearance ==
  [][\A i \in LandingIdx :
       (landingTasks[i].kind = "delete" /\ LandingFinished(i))
       => stories' \subseteq stories]_vars

\* C27: the user can choose the recap flag and an optional seed for a day
\* submission: whenever the modal can be submitted, it can be submitted as a
\* runDay request with recap "off", and as a request that carries a seed.
C27_RecapAndSeedChoosable ==
  (SubmitButton /\ Len(tasks) < MaxTasks)
  => /\ ENABLED (HandleSubmit /\ tasks'[Len(tasks')].req.recap = "off")
     /\ ENABLED (HandleSubmit /\ "seed" \in DOMAIN tasks'[Len(tasks')].req)

\* C28: manual selection shows what was selected: after a click on the
\* chapter item of day d the displayed chapter is the held chapter of day d,
\* the prologue (d = 0) included, whatever the order of the list.
C28_SelectionShown ==
  [][SelectChapter
     => /\ CurrentChapter' # Null
        /\ CurrentChapter'.day = selectedChapter']_vars

\* C30: in every state of a reader session, a selection of the ending
\* sentinel (-1) comes with a held Ending, so the ending view is the one
\* displayed and the lookup of a chapter of day -1 is never shown.
C30_EndingSelectedIsHeld ==
  selectedChapter = EndingSel => ending # Null

\* the ending view is displayed while a later handler is still in flight
C30_Witness ==
  /\ MainView /\ selectedChapter = EndingSel /\ ending # Null
  /\ chapters # <<>> /\ tasks # <<>>

\* C31: no day submission and no ending submission is started while no
\* snapshot is held: in the initial load and in the load-error display the
\* modal is not open, only loads are in flight, and no step starts a
\* runDay or generateEnding handler.
C31_NoSubmissionWithoutSnapshot ==
  /\ [](story = Null
        => /\ ~showModal
           /\ \A i \in Idx : tasks[i].kind = "load")
  /\ [][(Started("continue") \/ Started("ending")) => story # Null]_vars

\* the load-error display: the load has failed and no snapshot is held
C31_Witness == ErrorView /\ tasks = <<>>

\* C32: one opening of the Continue modal yields at most one day
\* submission, with an emotion of the vocabulary: a day submission starts
\* only from an open modal with an emotion selected, carries that emotion,
\* one of EMOTIONS, and closes the modal in the same step, so that a further
\* submission needs a new opening; with no emotion selected, or with the
\* modal closed, no submission can start.
C32_OneSubmissionPerOpening ==
  /\ []((~showModal \/ selectedEmotion = "") => ~ENABLED HandleSubmit)
  /\ [][Started("continue")
        => /\ showModal /\ ~showModal'
           /\ selectedEmotion # ""
           /\ tasks'[Len(tasks')].req.emotion = selectedEmotion
           /\ \E k \in 1..Len(EMOTIONS) : EMOTIONS[k] = selectedEmotion
           /\ ~(ENABLED HandleSubmit)']_vars

\* the modal has been opened again while a day submission is in flight,
\* and can be submitted
C32_Witness ==
  /\ SubmitButton /\ Len(tasks) < MaxTasks
  /\ \E i \in Idx : tasks[i].kind = "continue"

====
